---- MODULE Spec2Model ----
(***************************************************************************)
(* Position ledger and decision scheduler of the trading agent             *)
(* (src/App.tsx: closeTrade, executeAiLoop, the allMids subscriber and     *)
(* the ref-synchronisation effects).                                       *)
(*                                                                         *)
(* React state lives in the variables portfolio, config, activeTrades,     *)
(* tradeHistory, marketData, isRunning, isAnalyzing.  The *Ref variables   *)
(* are the useRef mirrors, which only catch up with the state when the     *)
(* passive effects of a render run (action Render).  Handlers started by a *)
(* click re-render synchronously; handlers started by a timer, a promise   *)
(* continuation or the websocket leave the mirrors stale until Render.     *)
(*                                                                         *)
(* Money is in whole dollars; the doubles of the source become integers    *)
(* and every division rounds down.                                         *)
(***************************************************************************)
EXTENDS Integers, Sequences, FiniteSets, Bags, TLC

\* ---------------------------------------------------------------- bounds
MaxTrades == 2      \* positions the scheduler may open in one behaviour
MaxHistory == 2     \* closed records kept in one behaviour
MaxCycles == 2      \* executeAiLoop invocations that may be suspended together
MaxConfigSaves == 1 \* times the configuration dialog is saved
MaxSockets == 4     \* connect() calls made on one HyperliquidStream
MaxSubscribers == 2 \* callbacks registered together on one stream
MaxNow == 2700      \* seconds of wall-clock time followed by the candle clock
MaxCandles == 3     \* bars kept in candleHistory
MaxCloses == 4      \* length of a series given to calculateRSI
MaxPeriod == 2      \* largest period given to calculateRSI

\* ------------------------------------------------------ program constants
INITIAL_BALANCE == 10000
FEE_RATE_DENOMINATOR == 1000         \* TRADING_FEE_RATE = 1 / 1000
CONFIDENCE_THRESHOLD == 75
ENTRY_LEVERAGE_CAP == 5
INITIAL_MAX_LEVERAGE == 5
INITIAL_RISK_PCT == 10               \* riskPerTrade 0.1, in percent
STOP_LOSS_PCT == 2                   \* stopLossPct 0.02, in percent
TAKE_PROFIT_PCT == 4                 \* takeProfitPct 0.04, in percent
CANDLE_WINDOW == 900                 \* 15 minutes, in seconds

\* ------------------------------------------------------------ input sets
\* the trading basket, reduced in the configuration dialog to two of the five
\* initial assets before the agent is first started
Assets == {"BTC", "ETH"}
\* the prices an allMids batch may carry for each asset: BTC doubles from its
\* initial 100, ETH stays where it is
FeedPrices == [BTC |-> {200}, ETH |-> {100}]
Mids == {m \in [Assets -> {100, 200}] : \A a \in Assets : m[a] \in FeedPrices[a]}

NoAsset == "none"

Min(a, b) == IF a < b THEN a ELSE b

\* ----------------------------------------------------------------- state
VARIABLES
    portfolio,          \* [balance, equity, availableMargin]
    config,             \* [assets, maxLeverage, riskPct]
    activeTrades,       \* sequence of OPEN trades
    tradeHistory,       \* sequence of CLOSED trades, newest first
    marketData,         \* asset -> price, 0 when no data
    selectedAsset,      \* the asset shown in the chart (the selector is left untouched)
    isRunning,
    isAnalyzing,
    portfolioRef,
    configRef,
    activeTradesRef,
    marketDataRef,
    timerClosure,       \* isRunning/isAnalyzing captured by the armed interval callback
    cycles,             \* bag of the suspended executeAiLoop invocations
    configSaves,        \* number of handleSaveConfig calls so far
    nextId              \* trade id generator

\* HyperliquidStream
VARIABLES
    ws,                 \* id of the socket held in this.ws, 0 for null
    subscribers,        \* sequence of callbacks
    shouldReconnect,
    reconnectTimer,     \* id of the timer held in this.reconnectTimer, 0 for null
    sockets,            \* socket id -> readyState, the sockets created so far
    timers,             \* ids of the pending reconnect timers
    client,             \* "new", "connected" or "disconnected": the caller's last call
    lastBatch           \* the last message handled: its kind, the subscribers then
                        \* registered, the callbacks invoked

\* the candle aggregator
VARIABLES
    candleHistory,      \* sequence of finalized bars
    buildingCandleRef,  \* the building candle, NoCandle for null
    now,                \* Date.now() / 1000
    loads               \* the assets whose fetchHLCandles call is pending

\* calculateRSI
VARIABLES
    rsiCloses,          \* the closes of the candles of the last call
    rsiPeriod,          \* its period
    rsiValue            \* the value returned, a fraction [num, den]

\* analyzeMarket
VARIABLES
    analysisRequest,    \* the configuration and the provider's answer of the last call
    analysisResult      \* what the call settled with

\* the component's mount effect
VARIABLES
    app                 \* [mounted, init]: init is "fetching" until init() has
                        \* created and connected the stream, then "done"

agentVars == <<portfolio, config, activeTrades, tradeHistory, marketData,
               selectedAsset, isRunning, isAnalyzing, portfolioRef, configRef,
               activeTradesRef, marketDataRef, timerClosure, cycles, configSaves,
               nextId>>

streamVars == <<ws, subscribers, shouldReconnect, reconnectTimer, sockets, timers,
                client, lastBatch>>

providerVars == <<analysisRequest, analysisResult>>

candleVars == <<candleHistory, buildingCandleRef, now, loads>>

rsiVars == <<rsiCloses, rsiPeriod, rsiValue>>

appVars == <<app>>

vars == <<agentVars, streamVars, providerVars, candleVars, rsiVars, appVars>>

stateVars == <<portfolio, config, activeTrades, tradeHistory, marketData,
               selectedAsset, isRunning, isAnalyzing>>
refVars == <<portfolioRef, configRef, activeTradesRef, marketDataRef, timerClosure>>

INITIAL_PORTFOLIO ==
    [balance |-> INITIAL_BALANCE, equity |-> INITIAL_BALANCE,
     availableMargin |-> INITIAL_BALANCE]

INITIAL_CONFIG ==
    [assets |-> Assets, maxLeverage |-> INITIAL_MAX_LEVERAGE,
     riskPct |-> INITIAL_RISK_PCT, stopLossPct |-> STOP_LOSS_PCT,
     takeProfitPct |-> TAKE_PROFIT_PCT]

\* what the configuration dialog saves in this model: the basket reduced to
\* one asset (removeAsset), the Max Leverage slider at 3, Risk Per Trade at 20%
ALTERNATE_CONFIG ==
    [assets |-> {"BTC"}, maxLeverage |-> 3, riskPct |-> 20,
     stopLossPct |-> STOP_LOSS_PCT, takeProfitPct |-> TAKE_PROFIT_PCT]

Configs == {INITIAL_CONFIG, ALTERNATE_CONFIG}

Decision(d, l, c) == [kind |-> "ok", decision |-> d, leverage |-> l, confidence |-> c]

\* what analyzeMarket can settle with: a decision (the last one is its own
\* fallback for a missing key or an exhausted quota), or a thrown error
Results ==
    {Decision("LONG", 3, 76), Decision("SHORT", 8, 76), Decision("SHORT", 3, 75),
     Decision("WAIT", 8, 76), Decision("WAIT", 1, 0),
      [kind |-> "throw", decision |-> "WAIT", leverage |-> 1, confidence |-> 0]}

NoData == [a \in Assets |-> 0]

\* an invocation suspended in await saveSystemStatus, with its four snapshots
AwaitSave(trades, md, pf, cfg) ==
    [pc |-> "awaitSave", trades |-> trades, md |-> md, pf |-> pf, cfg |-> cfg,
     asset |-> NoAsset, price |-> 0]

\* an invocation suspended in await analyzeMarket: of the snapshots only the
\* portfolio, the config and data = currentMarketData[assetToAnalyze] are read again
AwaitAI(cy, asset) ==
    [pc |-> "awaitAI", trades |-> <<>>, md |-> NoData, pf |-> cy.pf, cfg |-> cy.cfg,
     asset |-> asset, price |-> cy.md[asset]]

InFlight == BagToSet(cycles)
Suspend(cy) == cycles (+) SetToBag({cy})
Resume(cy) == cycles (-) SetToBag({cy})

\* ------------------------------------------------------- PnL computation
PositionNotional(t) == t.size * t.leverage

\* rawDiff * quantity, quantity = notional / entryPrice, negated for SHORT
GrossPnl(t, price) ==
    LET rawDiff == price - t.entryPrice
        long == IF t.entryPrice > 0
                THEN (rawDiff * PositionNotional(t)) \div t.entryPrice ELSE 0
    IN IF t.side = "LONG" THEN long ELSE -long

EntryFee(t) == PositionNotional(t) \div FEE_RATE_DENOMINATOR

ExitFee(t, price) ==
    IF t.entryPrice > 0
    THEN (PositionNotional(t) * price) \div (t.entryPrice * FEE_RATE_DENOMINATOR)
    ELSE 0

TotalFees(t, price) == EntryFee(t) + ExitFee(t, price)

NetPnl(t, price) == GrossPnl(t, price) - TotalFees(t, price)

\* price || entryPrice
PriceOr(price, t) == IF price # 0 THEN price ELSE t.entryPrice

\* ------------------------------------------------------------ closeTrade
ClosedTrade(trade, reason, currentPrice) ==
    [id |-> trade.id, asset |-> trade.asset, entryPrice |-> trade.entryPrice,
     side |-> trade.side, size |-> trade.size, leverage |-> trade.leverage,
     aiConfidence |-> trade.aiConfidence,
     pnl |-> NetPnl(trade, currentPrice), fees |-> TotalFees(trade, currentPrice),
     status |-> "CLOSED", exitPrice |-> currentPrice, reason |-> reason]

\* ClosePortfolio with a slip: the margin comes back without the realized PnL
ClosePortfolioMarginOnly(prev, trade, finalNetPnl) ==
    [balance |-> prev.balance + finalNetPnl,
     equity |-> prev.equity + finalNetPnl,
     availableMargin |-> prev.availableMargin + trade.size]

ClosePortfolio(prev, trade, finalNetPnl) ==
    [balance |-> prev.balance + finalNetPnl,
     equity |-> prev.equity + finalNetPnl,
     availableMargin |-> prev.availableMargin + trade.size + finalNetPnl]

RemoveTrade(trades, id) == SelectSeq(trades, LAMBDA t : t.id # id)

\* closeTrade(trade, reason): no check that the trade is still active
closeTrade(trade, reason) ==
    LET currentPrice == PriceOr(marketDataRef[trade.asset], trade)
        closed == ClosedTrade(trade, reason, currentPrice)
    IN /\ tradeHistory' = <<closed>> \o tradeHistory
       /\ activeTrades' = RemoveTrade(activeTrades, trade.id)
       /\ portfolio' = ClosePortfolio(portfolio, trade, closed.pnl)

\* --------------------------------------------------------- executeAiLoop
HasTrade(trades, asset) == \E i \in 1..Len(trades) : trades[i].asset = asset

\* Array.prototype.find: the first trade on the asset
FindTrade(trades, asset) ==
    trades[CHOOSE i \in 1..Len(trades) :
              /\ trades[i].asset = asset
              /\ \A j \in 1..(i - 1) : trades[j].asset # asset]

\* ManageDecision with a slip: the stop-loss comparison is reversed
ManageDecisionReversed(existingTrade, cfg) ==
    LET netPnl == existingTrade.pnl
        positionValue == existingTrade.size * existingTrade.leverage
    IN IF positionValue > 0 /\ netPnl * 100 >= -(cfg.stopLossPct * positionValue)
       THEN "Stop Loss"
       ELSE IF positionValue > 0 /\ netPnl * 100 >= cfg.takeProfitPct * positionValue
            THEN "Take Profit"
            ELSE "none"

\* ManageDecision with a slip: the take-profit branch is missing
ManageDecisionStopLossOnly(existingTrade, cfg) ==
    LET netPnl == existingTrade.pnl
        positionValue == existingTrade.size * existingTrade.leverage
    IN IF positionValue > 0 /\ netPnl * 100 <= -(cfg.stopLossPct * positionValue)
       THEN "Stop Loss"
       ELSE "none"

\* pnlRatio = netPnl / positionValue compared with the thresholds
ManageDecision(existingTrade, cfg) ==
    LET netPnl == existingTrade.pnl
        positionValue == existingTrade.size * existingTrade.leverage
    IN IF positionValue > 0 /\ netPnl * 100 <= -(cfg.stopLossPct * positionValue)
       THEN "Stop Loss"
       ELSE IF positionValue > 0 /\ netPnl * 100 >= cfg.takeProfitPct * positionValue
            THEN "Take Profit"
            ELSE "none"

\* Accepted with a slip: a confidence of exactly 75 is accepted
AcceptedFrom75(result) ==
    result.decision # "WAIT" /\ result.confidence >= CONFIDENCE_THRESHOLD

Accepted(result) ==
    result.decision # "WAIT" /\ result.confidence > CONFIDENCE_THRESHOLD

TradeSize(pf, cfg) == (pf.balance * cfg.riskPct) \div 100

NewTrade(id, asset, price, result, size) ==
    [id |-> id, asset |-> asset, entryPrice |-> price, side |-> result.decision,
     size |-> size, leverage |-> Min(result.leverage, ENTRY_LEVERAGE_CAP),
     aiConfidence |-> result.confidence,
     pnl |-> -((size * result.leverage) \div FEE_RATE_DENOMINATOR),
     fees |-> (size * result.leverage) \div FEE_RATE_DENOMINATOR,
     status |-> "OPEN"]

OpenPortfolio(prev, size) ==
    [prev EXCEPT !.availableMargin = prev.availableMargin - size]

\* the invocation ends: finally { setIsAnalyzing(false) }
\* Finish with a slip: the finally clause leaves the flag as it is
FinishKeepsFlag(cy) ==
    /\ cycles' = Resume(cy)
    /\ isAnalyzing' = isAnalyzing

Finish(cy) ==
    /\ cycles' = Resume(cy)
    /\ isAnalyzing' = FALSE

\* TimerFires with a slip: the guard does not look at isRunning
TimerFiresWhileHalted ==
    /\ ~timerClosure.isAnalyzing
    /\ BagCardinality(cycles) < MaxCycles
    /\ cycles' = Suspend(AwaitSave(activeTradesRef, marketDataRef, portfolioRef,
                                   configRef))
    /\ UNCHANGED <<stateVars, refVars, configSaves, nextId>>

\* the interval fires: guard on the captured flags, snapshot of the refs,
\* then suspended in await saveSystemStatus
TimerFires ==
    /\ timerClosure.isRunning
    /\ ~timerClosure.isAnalyzing
    /\ BagCardinality(cycles) < MaxCycles
    /\ cycles' = Suspend(AwaitSave(activeTradesRef, marketDataRef, portfolioRef,
                                   configRef))
    /\ UNCHANGED <<stateVars, refVars, configSaves, nextId>>

\* saveSystemStatus rejects: catch, finally
SaveStatusFails(cy) ==
    /\ cy.pc = "awaitSave"
    /\ Finish(cy)
    /\ UNCHANGED <<portfolio, config, activeTrades, tradeHistory, marketData,
                   selectedAsset, isRunning, refVars, configSaves, nextId>>

\* saveSystemStatus resolves and the sampled asset has a trade in the snapshot
ManageExisting(cy, asset) ==
    /\ cy.pc = "awaitSave"
    /\ asset \in cy.cfg.assets
    /\ HasTrade(cy.trades, asset)
    /\ LET existingTrade == FindTrade(cy.trades, asset)
           reason == ManageDecision(existingTrade, cy.cfg)
       IN IF reason # "none"
          THEN /\ Len(tradeHistory) < MaxHistory
               /\ closeTrade(existingTrade, reason)
          ELSE UNCHANGED <<tradeHistory, activeTrades, portfolio>>
    /\ Finish(cy)
    /\ UNCHANGED <<config, marketData, selectedAsset, isRunning, refVars, configSaves, nextId>>

\* saveSystemStatus resolves, no trade on the sampled asset in the snapshot:
\* setIsAnalyzing(true), then return on missing data or await analyzeMarket
StartAnalysis(cy, asset) ==
    /\ cy.pc = "awaitSave"
    /\ asset \in cy.cfg.assets
    /\ ~HasTrade(cy.trades, asset)
    /\ IF cy.md[asset] = 0
       THEN Finish(cy)
       ELSE /\ isAnalyzing' = TRUE
            /\ cycles' = Resume(cy) (+) SetToBag({AwaitAI(cy, asset)})
    /\ UNCHANGED <<portfolio, config, activeTrades, tradeHistory, marketData,
                   selectedAsset, isRunning, refVars, configSaves, nextId>>

\* the entry conditions checked after await analyzeMarket
CanOpen(cy, result) ==
    /\ result.kind = "ok"
    /\ Accepted(result)
    /\ ~HasTrade(activeTradesRef, cy.asset)
    /\ ~(cy.pf.availableMargin < TradeSize(cy.pf, cy.cfg))

\* analyzeMarket settles with a decision or an error and the invocation
\* runs to its end
EvaluateEntry(cy, result) ==
    LET size == TradeSize(cy.pf, cy.cfg) IN
    /\ cy.pc = "awaitAI"
    /\ IF CanOpen(cy, result)
       THEN /\ nextId <= MaxTrades
            /\ activeTrades' = Append(activeTrades,
                    NewTrade(nextId, cy.asset, cy.price, result, size))
            /\ portfolio' = OpenPortfolio(portfolio, size)
            /\ nextId' = nextId + 1
       ELSE UNCHANGED <<activeTrades, portfolio, nextId>>
    /\ Finish(cy)
    /\ UNCHANGED <<config, tradeHistory, marketData, selectedAsset, isRunning,
                   refVars, configSaves>>

\* ------------------------------------------------- the allMids subscriber
MarkToMarket(t, currPrice) ==
    [t EXCEPT !.pnl = NetPnl(t, currPrice), !.fees = TotalFees(t, currPrice)]

MapTrades(trades, md) ==
    [i \in 1..Len(trades) |->
        MarkToMarket(trades[i], PriceOr(md[trades[i].asset], trades[i]))]

\* basket, viewed asset and the assets of the mirrored active trades
AssetsToUpdate ==
    configRef.assets \cup {selectedAsset}
        \cup {activeTradesRef[i].asset : i \in 1..Len(activeTradesRef)}

NextMarketData(prev, mids) ==
    [a \in Assets |->
        IF a \in AssetsToUpdate /\ prev[a] # mids[a] THEN mids[a] ELSE prev[a]]

Max(a, b) == IF a > b THEN a ELSE b

\* a bar; asset is not a field of the source's Candle, it records the asset
\* the bar was fetched or seeded for
Candle(asset, time, open, high, low, close) ==
    [asset |-> asset, time |-> time, open |-> open, high |-> high, low |-> low,
     close |-> close]

NoCandle == Candle(NoAsset, 0, 0, 0, 0, 0)

\* bc.close = newPrice, and high and low extended
FoldTick(bc, newPrice) ==
    [bc EXCEPT !.close = newPrice, !.high = Max(@, newPrice), !.low = Min(@, newPrice)]

\* the building candle is updated in the branch of a changed price of the
\* selected asset
NextBuildingCandle(prev, mids) ==
    IF /\ buildingCandleRef # NoCandle
       /\ selectedAsset \in AssetsToUpdate
       /\ prev[selectedAsset] # 0
       /\ prev[selectedAsset] # mids[selectedAsset]
    THEN FoldTick(buildingCandleRef, mids[selectedAsset])
    ELSE buildingCandleRef

Tick(mids) ==
    LET next == NextMarketData(marketData, mids)
        hasUpdate == next # marketData
    IN
    /\ marketData' = next
    /\ buildingCandleRef' = NextBuildingCandle(marketData, mids)
    /\ activeTrades' = IF hasUpdate THEN MapTrades(activeTrades, next) ELSE activeTrades
    /\ UNCHANGED <<portfolio, config, tradeHistory, selectedAsset, isRunning,
                   isAnalyzing, refVars, cycles, configSaves, nextId>>

\* ------------------------------------------------ renders and the mirrors
\* the useEffect mirrors and the re-armed interval after a render
SyncRefs ==
    /\ portfolioRef' = portfolio'
    /\ configRef' = config'
    /\ activeTradesRef' = activeTrades'
    /\ marketDataRef' = marketData'
    /\ timerClosure' = [isRunning |-> isRunning', isAnalyzing |-> isAnalyzing']

Stale ==
    \/ portfolioRef # portfolio
    \/ activeTradesRef # activeTrades
    \/ marketDataRef # marketData
    \/ timerClosure.isAnalyzing # isAnalyzing

Render ==
    /\ Stale
    /\ UNCHANGED <<stateVars, cycles, configSaves, nextId>>
    /\ SyncRefs

\* ------------------------------------------------------- operator clicks
\* the Close button of a rendered OPEN trade
ManualClose(i) ==
    /\ i \in 1..Len(activeTradesRef)
    /\ Len(tradeHistory) < MaxHistory
    /\ closeTrade(activeTradesRef[i], "Manual Override")
    /\ UNCHANGED <<config, marketData, selectedAsset, isRunning, isAnalyzing,
                   cycles, configSaves, nextId>>
    /\ SyncRefs

ToggleRunning ==
    /\ isRunning' = ~isRunning
    /\ UNCHANGED <<portfolio, config, activeTrades, tradeHistory, marketData,
                   selectedAsset, isAnalyzing, cycles, configSaves, nextId>>
    /\ SyncRefs

handleSaveConfig(newConfig) ==
    /\ configSaves < MaxConfigSaves
    /\ newConfig # config
    /\ config' = newConfig
    /\ configSaves' = configSaves + 1
    /\ UNCHANGED <<portfolio, activeTrades, tradeHistory, marketData,
                   selectedAsset, isRunning, isAnalyzing, cycles, nextId>>
    /\ SyncRefs

\* ------------------------------------------------------ HyperliquidStream
\* cbThrows is a callback that throws when it is invoked
Callbacks == {"cbA", "cbB", "cbThrows"}
MessageKinds == {"allMids", "other", "malformed"}

Live(s) == sockets[s] \in {"CONNECTING", "OPEN"}

\* WebSocket.close(): no effect on a socket that is closing or closed
Close(socks, s) ==
    IF s \in DOMAIN socks /\ socks[s] \in {"CONNECTING", "OPEN"}
    THEN [socks EXCEPT ![s] = "CLOSING"]
    ELSE socks

\* connect(): the constructor either gives a new socket or throws, and then
\* the catch clause arms the 5 s timer
connect(constructed) ==
    LET id == Len(sockets) + 1 IN
    /\ Len(sockets) < MaxSockets
    /\ shouldReconnect' = TRUE
    /\ IF constructed
       THEN /\ sockets' = Append(sockets, "CONNECTING")
            /\ ws' = id
            /\ UNCHANGED <<reconnectTimer, timers>>
       ELSE /\ sockets' = Append(sockets, "CLOSED")
            /\ reconnectTimer' = id
            /\ timers' = timers \cup {id}
            /\ UNCHANGED ws

\* the caller's connect(): on a fresh stream, or again after disconnect()
Connect(constructed) ==
    /\ client \in {"new", "disconnected"}
    /\ connect(constructed)
    /\ client' = "connected"
    /\ UNCHANGED <<subscribers, lastBatch>>

\* setTimeout(() => this.connect(), ...) fires
ReconnectTimerFires(t, constructed) ==
    /\ t \in timers
    /\ LET id == Len(sockets) + 1 IN
       /\ Len(sockets) < MaxSockets
       /\ shouldReconnect' = TRUE
       /\ IF constructed
          THEN /\ sockets' = Append(sockets, "CONNECTING")
               /\ ws' = id
               /\ timers' = timers \ {t}
               /\ UNCHANGED reconnectTimer
          ELSE /\ sockets' = Append(sockets, "CLOSED")
               /\ reconnectTimer' = id
               /\ timers' = (timers \ {t}) \cup {id}
               /\ UNCHANGED ws
    /\ UNCHANGED <<subscribers, client, lastBatch>>

\* onopen
OnOpen(s) ==
    /\ s \in DOMAIN sockets
    /\ sockets[s] = "CONNECTING"
    /\ sockets' = [sockets EXCEPT ![s] = "OPEN"]
    /\ UNCHANGED <<ws, subscribers, shouldReconnect, reconnectTimer, timers, client,
                   lastBatch>>

\* subscribers.forEach(cb => cb(numericMids)) inside the try of onmessage: a
\* callback that throws ends the loop
RECURSIVE Invoked(_)
Invoked(subs) ==
    IF subs = <<>> THEN <<>>
    ELSE IF Head(subs) = "cbThrows" THEN <<Head(subs)>>
         ELSE <<Head(subs)>> \o Invoked(Tail(subs))

\* onmessage
OnMessage(s, kind) ==
    /\ s \in DOMAIN sockets
    /\ sockets[s] = "OPEN"
    /\ lastBatch' = [kind |-> kind, subscribers |-> subscribers,
                     invoked |-> IF kind = "allMids" THEN Invoked(subscribers)
                                 ELSE <<>>]
    /\ UNCHANGED <<ws, subscribers, shouldReconnect, reconnectTimer, sockets, timers,
                   client>>

\* onerror: this.ws?.close(); the socket that failed goes on to its close event
OnError(s) ==
    /\ s \in DOMAIN sockets
    /\ Live(s)
    /\ sockets' = Close(Close(sockets, ws), s)
    /\ UNCHANGED <<ws, subscribers, shouldReconnect, reconnectTimer, timers, client,
                   lastBatch>>

\* OnClose with a slip: only the first close arms the reconnect timer
OnCloseFirstOnly(s) ==
    /\ s \in DOMAIN sockets
    /\ sockets[s] # "CLOSED"
    /\ sockets' = [sockets EXCEPT ![s] = "CLOSED"]
    /\ IF shouldReconnect /\ reconnectTimer = 0
       THEN /\ reconnectTimer' = s
            /\ timers' = timers \cup {s}
       ELSE UNCHANGED <<reconnectTimer, timers>>
    /\ UNCHANGED <<ws, subscribers, shouldReconnect, client, lastBatch>>

\* onclose, after close() or when the connection drops
OnClose(s) ==
    /\ s \in DOMAIN sockets
    /\ sockets[s] # "CLOSED"
    /\ sockets' = [sockets EXCEPT ![s] = "CLOSED"]
    /\ IF shouldReconnect
       THEN /\ reconnectTimer' = s
            /\ timers' = timers \cup {s}
       ELSE UNCHANGED <<reconnectTimer, timers>>
    /\ UNCHANGED <<ws, subscribers, shouldReconnect, client, lastBatch>>

\* subscribe(cb)
Subscribe(cb) ==
    /\ Len(subscribers) < MaxSubscribers
    /\ \A i \in 1..Len(subscribers) : subscribers[i] # cb
    /\ subscribers' = Append(subscribers, cb)
    /\ UNCHANGED <<ws, shouldReconnect, reconnectTimer, sockets, timers, client,
                   lastBatch>>

\* the handle returned by subscribe(cb)
Unsubscribe(cb) ==
    /\ \E i \in 1..Len(subscribers) : subscribers[i] = cb
    /\ subscribers' = SelectSeq(subscribers, LAMBDA x : x # cb)
    /\ UNCHANGED <<ws, shouldReconnect, reconnectTimer, sockets, timers, client,
                   lastBatch>>

\* disconnect()
Disconnect ==
    /\ client = "connected"
    /\ shouldReconnect' = FALSE
    /\ timers' = IF reconnectTimer # 0 THEN timers \ {reconnectTimer} ELSE timers
    /\ sockets' = Close(sockets, ws)
    /\ client' = "disconnected"
    /\ UNCHANGED <<ws, subscribers, reconnectTimer, lastBatch>>

NoBatch == [kind |-> "none", subscribers |-> <<>>, invoked |-> <<>>]

StreamInit ==
    /\ ws = 0
    /\ subscribers = <<>>
    /\ shouldReconnect = TRUE
    /\ reconnectTimer = 0
    /\ sockets = <<>>
    /\ timers = {}
    /\ client = "new"
    /\ lastBatch = NoBatch

StreamNext ==
    \/ \E constructed \in BOOLEAN : Connect(constructed) /\ UNCHANGED <<agentVars, providerVars, candleVars, rsiVars, appVars>>
    \/ \E t \in 1..MaxSockets, constructed \in BOOLEAN : ReconnectTimerFires(t, constructed) /\ UNCHANGED <<agentVars, providerVars, candleVars, rsiVars, appVars>>
    \/ \E s \in 1..MaxSockets : OnOpen(s) /\ UNCHANGED <<agentVars, providerVars, candleVars, rsiVars, appVars>>
    \/ \E s \in 1..MaxSockets, kind \in MessageKinds : OnMessage(s, kind) /\ UNCHANGED <<agentVars, providerVars, candleVars, rsiVars, appVars>>
    \/ \E s \in 1..MaxSockets : OnError(s) /\ UNCHANGED <<agentVars, providerVars, candleVars, rsiVars, appVars>>
    \/ \E s \in 1..MaxSockets : OnClose(s) /\ UNCHANGED <<agentVars, providerVars, candleVars, rsiVars, appVars>>
    \/ \E cb \in Callbacks : Subscribe(cb) /\ UNCHANGED <<agentVars, providerVars, candleVars, rsiVars, appVars>>
    \/ \E cb \in Callbacks : Unsubscribe(cb) /\ UNCHANGED <<agentVars, providerVars, candleVars, rsiVars, appVars>>
    \/ Disconnect /\ UNCHANGED <<agentVars, providerVars, candleVars, rsiVars, appVars>>

\* ----------------------------------------------------------- analyzeMarket
Providers == {"GEMINI", "OPENROUTER", "OLLAMA", "UNKNOWN"}

\* the JSON documents a provider may answer with
Answers ==
    {Decision(d, l, c) : d \in {"LONG", "SHORT", "WAIT"}, l \in {1, 8}, c \in {0, 75, 76}}

\* what the provider does with a request: the transport fails, or it answers
\* with an HTTP status and a body
Body(kind) == [kind |-> kind, decision |-> "WAIT", leverage |-> 1, confidence |-> 0]

Outcomes ==
    {[transport |-> "failed", status |-> 0, body |-> Body("none")]}
        \cup {[transport |-> "ok", status |-> st, body |-> Body("none")] : st \in {429, 500}}
        \cup {[transport |-> "ok", status |-> 200, body |-> b] :
                 b \in {Body("empty"), Body("malformed")} \cup Answers}

Requests ==
    [aiProvider : Providers, hasKey : BOOLEAN, outcome : Outcomes]

Thrown == [kind |-> "throw", decision |-> "WAIT", leverage |-> 1, confidence |-> 0]

\* { decision: WAIT, leverage: 1, confidence: 0, reasoning: ... }
Fallback == Decision("WAIT", 1, 0)

\* fetch, response.ok, the content check and JSON.parse; the catch rethrows
fetchOpenAICompatible(outcome) ==
    IF outcome.transport = "failed" THEN Thrown
    ELSE IF outcome.status # 200 THEN Thrown
    ELSE IF outcome.body.kind \in {"empty", "malformed"} THEN Thrown
    ELSE outcome.body

\* generateContent, the text check and JSON.parse; the catch returns the
\* fallback for status 429 and rethrows everything else
GeminiGenerate(outcome) ==
    IF outcome.transport = "failed" THEN Thrown
    ELSE IF outcome.status = 429 THEN Fallback
    ELSE IF outcome.status # 200 THEN Thrown
    ELSE IF outcome.body.kind \in {"empty", "malformed"} THEN Thrown
    ELSE outcome.body

analyzeMarket(req) ==
    IF req.aiProvider = "OPENROUTER"
    THEN IF ~req.hasKey THEN Fallback ELSE fetchOpenAICompatible(req.outcome)
    ELSE IF req.aiProvider = "OLLAMA"
    THEN fetchOpenAICompatible(req.outcome)
    ELSE IF req.aiProvider = "GEMINI"
    THEN IF ~req.hasKey THEN Fallback ELSE GeminiGenerate(req.outcome)
    ELSE Fallback

\* one call of analyzeMarket
Analyze(req) ==
    /\ analysisRequest' = req
    /\ analysisResult' = analyzeMarket(req)

NoRequest == [aiProvider |-> "UNKNOWN", hasKey |-> FALSE,
              outcome |-> [transport |-> "failed", status |-> 0, body |-> Body("none")]]

ProviderInit ==
    /\ analysisRequest = NoRequest
    /\ analysisResult = Fallback

ProviderNext ==
    \E req \in Requests : Analyze(req) /\ UNCHANGED <<agentVars, streamVars, candleVars, rsiVars, appVars>>

\* ------------------------------------------------------ candle aggregator
CandlePrices == {98, 100, 105}
CandleMids == [Assets -> CandlePrices]

\* what fetchHLCandles resolves with for an asset: no bars, or one bar
FetchedBars(asset) ==
    {<<>>} \cup {<<Candle(asset, 0, c, c, c, c)>> : c \in {98, 100}}

\* the building candle that follows a bar
NextCandle(asset, last) ==
    Candle(asset, last.time + CANDLE_WINDOW, last.close, last.close, last.close,
           last.close)

\* the next building candle with a slip: it keeps the open of the finalized bar
NextCandleKeepsOpen(finalized) ==
    Candle(finalized.asset, finalized.time + CANDLE_WINDOW, finalized.open,
           finalized.close, finalized.close, finalized.close)

\* the next building candle with a slip: it starts two windows later
NextCandleSkipsWindow(finalized) ==
    Candle(finalized.asset, finalized.time + 2 * CANDLE_WINDOW, finalized.close,
           finalized.close, finalized.close, finalized.close)

\* the building candle opened by the candle loop after a finalized bar
NextCandleAfter(finalized) == NextCandle(finalized.asset, finalized)

\* a click on an asset card: setSelectedAsset, and the effect of the render
\* that follows starts loadCandles and clears candleHistory
SelectAsset(a) ==
    /\ a # selectedAsset
    /\ selectedAsset' = a
    /\ loads' = loads \cup {a}
    /\ candleHistory' = <<>>
    /\ UNCHANGED <<portfolio, config, activeTrades, tradeHistory, marketData,
                   isRunning, isAnalyzing, refVars, cycles, configSaves, nextId,
                   buildingCandleRef, now>>

\* fetchHLCandles resolves inside loadCandles, started for asset a
LoadCandlesResolves(a, candles) ==
    /\ a \in loads
    /\ loads' = loads \ {a}
    /\ IF Len(candles) > 0
       THEN /\ candleHistory' = candles
            /\ buildingCandleRef' = NextCandle(a, candles[Len(candles)])
       ELSE UNCHANGED <<candleHistory, buildingCandleRef>>
    /\ UNCHANGED <<agentVars, now>>

\* one run of the candle loop's interval callback
ClockCheck ==
    /\ IF buildingCandleRef # NoCandle /\ now >= buildingCandleRef.time + CANDLE_WINDOW
       THEN /\ Len(candleHistory) < MaxCandles
            /\ candleHistory' = Append(candleHistory, buildingCandleRef)
            /\ buildingCandleRef' = NextCandleAfter(buildingCandleRef)
       ELSE UNCHANGED <<candleHistory, buildingCandleRef>>
    /\ UNCHANGED <<agentVars, now, loads>>

\* wall-clock time passes
Advance ==
    /\ now < MaxNow
    /\ now' = now + (CANDLE_WINDOW \div 2)
    /\ UNCHANGED <<agentVars, candleHistory, buildingCandleRef, loads>>

\* the state after the first render: loadCandles is pending for the initial asset
CandleInit ==
    /\ candleHistory = <<>>
    /\ buildingCandleRef = NoCandle
    /\ now = 0
    /\ loads = {"BTC"}

CandleNext ==
    \/ \E mids \in CandleMids : Tick(mids) /\ UNCHANGED <<streamVars, providerVars, rsiVars, appVars, candleHistory, now, loads>>
    \/ \E a \in Assets : SelectAsset(a) /\ UNCHANGED <<streamVars, providerVars, rsiVars, appVars>>
    \/ \E a \in Assets : \E candles \in FetchedBars(a) : LoadCandlesResolves(a, candles) /\ UNCHANGED <<streamVars, providerVars, rsiVars, appVars>>
    \/ ClockCheck /\ UNCHANGED <<streamVars, providerVars, rsiVars, appVars>>
    \/ Advance /\ UNCHANGED <<streamVars, providerVars, rsiVars, appVars>>

\* ------------------------------------------------------------ calculateRSI
\* the doubles of the source are exact fractions [num, den] with den > 0
Frac(n, d) == [num |-> n, den |-> d]
FracAdd(x, y) == Frac(x.num * y.den + y.num * x.den, x.den * y.den)
FracSub(x, y) == Frac(x.num * y.den - y.num * x.den, x.den * y.den)
FracMul(x, y) == Frac(x.num * y.num, x.den * y.den)
\* x / y for y > 0
FracDiv(x, y) == Frac(x.num * y.den, x.den * y.num)
FracEq(x, y) == x.num * y.den = y.num * x.den
FracLeq(x, y) == x.num * y.den <= y.num * x.den

Abs(x) == IF x < 0 THEN -x ELSE x

\* closes[i] - closes[i - 1] for the source's index i, counted from 0
Change(closes, i) == closes[i + 1] - closes[i]

\* the gain of a change with a slip: a fall counts as a gain
GainOfAbs(change) == Abs(change)

\* if (change >= 0) gain = change
GainOf(change) == IF change >= 0 THEN change ELSE 0

\* else loss = Math.abs(change)
LossOf(change) == IF change >= 0 THEN 0 ELSE Abs(change)

\* the first loop: the sums of the gains and of the losses for i = 1..period
RECURSIVE InitialGains(_, _)
InitialGains(closes, i) ==
    IF i = 0 THEN 0 ELSE InitialGains(closes, i - 1) + GainOf(Change(closes, i))

RECURSIVE InitialLosses(_, _)
InitialLosses(closes, i) ==
    IF i = 0 THEN 0 ELSE InitialLosses(closes, i - 1) + LossOf(Change(closes, i))

\* the second loop, for i = period + 1 .. closes.length - 1:
\* avg = ((avg * (period - 1)) + value) / period
RECURSIVE Smooth(_, _, _, _)
Smooth(closes, period, i, avg) ==
    IF i > Len(closes) - 1 THEN avg
    ELSE Smooth(closes, period, i + 1,
             [gain |-> FracDiv(FracAdd(FracMul(avg.gain, Frac(period - 1, 1)),
                                       Frac(GainOf(Change(closes, i)), 1)),
                               Frac(period, 1)),
              loss |-> FracDiv(FracAdd(FracMul(avg.loss, Frac(period - 1, 1)),
                                       Frac(LossOf(Change(closes, i)), 1)),
                               Frac(period, 1))])

calculateRSI(closes, period) ==
    IF Len(closes) < period + 1 THEN Frac(50, 1)
    ELSE LET avg == Smooth(closes, period, period + 1,
                       [gain |-> Frac(InitialGains(closes, period), period),
                        loss |-> Frac(InitialLosses(closes, period), period)])
         IN IF avg.loss.num = 0 THEN Frac(100, 1)
            ELSE LET rs == FracDiv(avg.gain, avg.loss)
                 IN FracSub(Frac(100, 1),
                            FracDiv(Frac(100, 1), FracAdd(Frac(1, 1), rs)))

\* one call of calculateRSI
ComputeRSI(closes, period) ==
    /\ rsiCloses' = closes
    /\ rsiPeriod' = period
    /\ rsiValue' = calculateRSI(closes, period)

ClosePrices == {1, 2, 3}
Series == UNION {[1..n -> ClosePrices] : n \in 0..MaxCloses}

RsiInit ==
    /\ rsiCloses = <<>>
    /\ rsiPeriod = 1
    /\ rsiValue = Frac(50, 1)

RsiNext ==
    \E closes \in Series, period \in 1..MaxPeriod : ComputeRSI(closes, period) /\ UNCHANGED <<agentVars, streamVars, providerVars, candleVars, appVars>>

\* ------------------------------------------- mount effect and its cleanup
\* the callback that init() subscribes
AppCallback == "cbA"

\* fetchHLSnapshot has settled (it resolves with null on an error): init()
\* creates the stream, connects and subscribes; when the cleanup has run
\* already, its cleanupPromise.then(unsub => unsub()) unsubscribes at once
InitResolves(constructed) ==
    /\ app.init = "fetching"
    /\ client = "new"
    /\ connect(constructed)
    /\ client' = "connected"
    /\ subscribers' = IF app.mounted THEN Append(subscribers, AppCallback)
                      ELSE subscribers
    /\ app' = [app EXCEPT !.init = "done"]
    /\ UNCHANGED lastBatch

\* the cleanup of the mount effect: unsubscribe once init() has resolved, and
\* hlStream.current?.disconnect(), a no-op while hlStream.current is null
Unmount ==
    /\ app.mounted
    /\ app' = [app EXCEPT !.mounted = FALSE]
    /\ IF app.init = "done"
       THEN /\ shouldReconnect' = FALSE
            /\ timers' = IF reconnectTimer # 0 THEN timers \ {reconnectTimer}
                          ELSE timers
            /\ sockets' = Close(sockets, ws)
            /\ client' = "disconnected"
            /\ subscribers' = SelectSeq(subscribers, LAMBDA x : x # AppCallback)
            /\ UNCHANGED <<ws, reconnectTimer, lastBatch>>
       ELSE UNCHANGED streamVars

AppInit == app = [mounted |-> TRUE, init |-> "fetching"]

AppNext ==
    \/ \E constructed \in BOOLEAN : InitResolves(constructed) /\ UNCHANGED <<agentVars, providerVars, candleVars, rsiVars>>
    \/ Unmount /\ UNCHANGED <<agentVars, providerVars, candleVars, rsiVars>>
    \/ \E t \in 1..MaxSockets, constructed \in BOOLEAN : ReconnectTimerFires(t, constructed) /\ UNCHANGED <<agentVars, providerVars, candleVars, rsiVars, appVars>>
    \/ \E s \in 1..MaxSockets : OnOpen(s) /\ UNCHANGED <<agentVars, providerVars, candleVars, rsiVars, appVars>>
    \/ \E s \in 1..MaxSockets, kind \in MessageKinds : OnMessage(s, kind) /\ UNCHANGED <<agentVars, providerVars, candleVars, rsiVars, appVars>>
    \/ \E s \in 1..MaxSockets : OnError(s) /\ UNCHANGED <<agentVars, providerVars, candleVars, rsiVars, appVars>>
    \/ \E s \in 1..MaxSockets : OnClose(s) /\ UNCHANGED <<agentVars, providerVars, candleVars, rsiVars, appVars>>

\* ---------------------------------------------------------- specification
\* the market data set by init() from the snapshot of the exchange
InitialData == [a \in Assets |-> 100]

AgentInit ==
    /\ portfolio = INITIAL_PORTFOLIO
    /\ config = INITIAL_CONFIG
    /\ activeTrades = <<>>
    /\ tradeHistory = <<>>
    /\ marketData = InitialData
    /\ selectedAsset = "BTC"
    /\ isRunning = FALSE
    /\ isAnalyzing = FALSE
    /\ portfolioRef = INITIAL_PORTFOLIO
    /\ configRef = INITIAL_CONFIG
    /\ activeTradesRef = <<>>
    /\ marketDataRef = InitialData
    /\ timerClosure = [isRunning |-> FALSE, isAnalyzing |-> FALSE]
    /\ cycles = EmptyBag
    /\ configSaves = 0
    /\ nextId = 1

Init ==
    /\ AgentInit
    /\ StreamInit
    /\ ProviderInit
    /\ CandleInit
    /\ RsiInit
    /\ AppInit

\* the trading agent
otherVars == <<streamVars, providerVars, candleVars, rsiVars, appVars>>

Next ==
    \/ TimerFires /\ UNCHANGED otherVars
    \/ \E cy \in InFlight : SaveStatusFails(cy) /\ UNCHANGED otherVars
    \/ \E cy \in InFlight, a \in Assets : ManageExisting(cy, a) /\ UNCHANGED otherVars
    \/ \E cy \in InFlight, a \in Assets : StartAnalysis(cy, a) /\ UNCHANGED otherVars
    \/ \E cy \in InFlight, r \in Results : EvaluateEntry(cy, r) /\ UNCHANGED otherVars
    \/ \E mids \in Mids : Tick(mids) /\ UNCHANGED <<streamVars, providerVars, rsiVars, appVars, candleHistory, now, loads>>
    \/ Render /\ UNCHANGED otherVars
    \/ \E i \in 1..MaxTrades : ManualClose(i) /\ UNCHANGED otherVars
    \/ ToggleRunning /\ UNCHANGED otherVars
    \/ \E newConfig \in Configs : handleSaveConfig(newConfig) /\ UNCHANGED otherVars

Spec == Init /\ [][Next]_vars

\* the position ledger under a feed in which the asset that is not viewed
\* doubles together with the viewed one: the cycles that open positions, the
\* configuration dialog, renders and ticks
AllMids == {[a \in Assets |-> 200]}

MarkNext ==
    \/ ToggleRunning /\ UNCHANGED otherVars
    \/ TimerFires /\ UNCHANGED otherVars
    \/ \E cy \in InFlight, a \in Assets : StartAnalysis(cy, a) /\ UNCHANGED otherVars
    \/ \E cy \in InFlight, r \in Results : EvaluateEntry(cy, r) /\ UNCHANGED otherVars
    \/ \E newConfig \in Configs : handleSaveConfig(newConfig) /\ UNCHANGED otherVars
    \/ Render /\ UNCHANGED otherVars
    \/ \E mids \in AllMids : Tick(mids) /\ UNCHANGED <<streamVars, providerVars, rsiVars, appVars, candleHistory, now, loads>>

MarkSpec == Init /\ [][MarkNext]_vars

\* the decision cycles when the snapshot of init() had no entry for ETH:
\* marketData has no ETH price until the first batch arrives; every awaited
\* call settles and every render that is due takes place
PartialData == [a \in Assets |-> IF a = "BTC" THEN 100 ELSE 0]

CycleInit ==
    /\ portfolio = INITIAL_PORTFOLIO
    /\ config = INITIAL_CONFIG
    /\ activeTrades = <<>>
    /\ tradeHistory = <<>>
    /\ marketData = PartialData
    /\ selectedAsset = "BTC"
    /\ isRunning = FALSE
    /\ isAnalyzing = FALSE
    /\ portfolioRef = INITIAL_PORTFOLIO
    /\ configRef = INITIAL_CONFIG
    /\ activeTradesRef = <<>>
    /\ marketDataRef = PartialData
    /\ timerClosure = [isRunning |-> FALSE, isAnalyzing |-> FALSE]
    /\ cycles = EmptyBag
    /\ configSaves = 0
    /\ nextId = 1
    /\ StreamInit
    /\ ProviderInit
    /\ CandleInit
    /\ RsiInit
    /\ AppInit

CycleNext ==
    \/ ToggleRunning /\ UNCHANGED otherVars
    \/ TimerFires /\ UNCHANGED otherVars
    \/ \E cy \in InFlight : SaveStatusFails(cy) /\ UNCHANGED otherVars
    \/ \E cy \in InFlight, a \in Assets : ManageExisting(cy, a) /\ UNCHANGED otherVars
    \/ \E cy \in InFlight, a \in Assets : StartAnalysis(cy, a) /\ UNCHANGED otherVars
    \/ \E cy \in InFlight, r \in Results : EvaluateEntry(cy, r) /\ UNCHANGED otherVars
    \/ \E mids \in Mids : Tick(mids) /\ UNCHANGED <<streamVars, providerVars, rsiVars, appVars, candleHistory, now, loads>>
    \/ Render /\ UNCHANGED otherVars

AwaitSaveSettles ==
    \E cy \in InFlight :
        \/ SaveStatusFails(cy)
        \/ \E a \in Assets : ManageExisting(cy, a) \/ StartAnalysis(cy, a)

AwaitAISettles == \E cy \in InFlight, r \in Results : EvaluateEntry(cy, r)

CycleLiveSpec ==
    /\ CycleInit
    /\ [][CycleNext]_vars
    /\ WF_agentVars(AwaitSaveSettles)
    /\ WF_agentVars(AwaitAISettles)
    /\ WF_agentVars(Render)

\* the price stream
StreamSpec == Init /\ [][StreamNext]_vars

\* the price stream with its timers: a timeout that is pending and not
\* cleared runs its callback
StreamLiveSpec ==
    /\ Init
    /\ [][StreamNext]_vars
    /\ \A t \in 1..MaxSockets :
          WF_streamVars(\E constructed \in BOOLEAN : ReconnectTimerFires(t, constructed))

\* the mount effect, its cleanup and the stream it owns
AppSpec == Init /\ [][AppNext]_vars

\* the decision provider
ProviderSpec == Init /\ [][ProviderNext]_vars

\* the candle aggregator
CandleSpec == Init /\ [][CandleNext]_vars

\* the indicator
RsiSpec == Init /\ [][RsiNext]_vars

\* ================================================================ claims
NewestTrade == activeTrades'[Len(activeTrades')]
Opened == nextId' # nextId
Closed == Len(tradeHistory') = Len(tradeHistory) + 1

RECURSIVE SumSize(_)
SumSize(trades) ==
    IF trades = <<>> THEN 0 ELSE Head(trades).size + SumSize(Tail(trades))

RECURSIVE SumPnl(_)
SumPnl(trades) ==
    IF trades = <<>> THEN 0 ELSE Head(trades).pnl + SumPnl(Tail(trades))

\* C1: in every reachable state the active trades hold at most one OPEN
\* position per asset.
OneOpenPerAsset ==
    \A i, j \in 1..Len(activeTrades) :
        i # j => activeTrades[i].asset # activeTrades[j].asset

\* C2: a second closeTrade for the same position id is rejected, so no
\* position id is ever recorded as closed twice.
CloseSucceedsOnce ==
    \A i, j \in 1..Len(tradeHistory) :
        i # j => tradeHistory[i].id # tradeHistory[j].id

\* C3: at no time are two decision cycles in progress together.
SingleFlight == BagCardinality(cycles) <= 1

\* C4: an open debits availableMargin by the margin size of the new position
\* and leaves balance and equity alone; a close credits marginSize + finalNetPnl
\* to availableMargin and finalNetPnl to balance and to equity.
OpenCloseAccounting ==
    [][/\ Opened =>
            portfolio' = [portfolio EXCEPT
                            !.availableMargin = @ - NewestTrade.size]
       /\ Closed =>
            LET closed == Head(tradeHistory') IN
            /\ portfolio'.availableMargin =
                   portfolio.availableMargin + closed.size + closed.pnl
            /\ portfolio'.balance = portfolio.balance + closed.pnl
            /\ portfolio'.equity = portfolio.equity + closed.pnl]_vars

\* C4 witness: a position has been closed with a realized PnL while another
\* one, opened by the scheduler, is active.
OpenedAndClosedReached ==
    /\ Len(activeTrades) > 0
    /\ Len(tradeHistory) > 0
    /\ tradeHistory[1].pnl # 0

\* C5: availableMargin plus the margin of the OPEN positions equals balance
\* equals equity, and balance is the initial balance plus the realized net PnL
\* of the closed positions.
MarginConserved ==
    /\ portfolio.availableMargin + SumSize(activeTrades) = portfolio.balance
    /\ portfolio.balance = portfolio.equity
    /\ portfolio.balance = INITIAL_BALANCE + SumPnl(tradeHistory)

\* C6: every position opened by the scheduler has leverage
\* min(suggested leverage, configured maxLeverage).
LeverageWithinConfiguredMax ==
    [][Opened =>
          \A cy \in InFlight, r \in Results :
              EvaluateEntry(cy, r) =>
                  NewestTrade.leverage = Min(r.leverage, cy.cfg.maxLeverage)]_vars

\* C7: a new position starts with fees equal to feeRate times its own
\* notional (marginSize x its capped leverage) and pnl equal to minus that fee.
EntryFeeOnOwnNotional ==
    [][Opened =>
          /\ NewestTrade.fees =
                 (NewestTrade.size * NewestTrade.leverage) \div FEE_RATE_DENOMINATOR
          /\ NewestTrade.pnl = -NewestTrade.fees]_vars

\* C8: a position is opened only if its margin size does not exceed the
\* available margin at the moment the open is applied, so no open leaves
\* availableMargin below zero.
OpenWithinAvailableMargin ==
    [][Opened =>
          /\ NewestTrade.size <= portfolio.availableMargin
          /\ portfolio'.availableMargin >= 0]_vars

\* C9: a cycle opens a position only for a LONG or SHORT decision with
\* confidence above 75; for WAIT or a confidence of 75 or less it leaves the
\* active trades and the portfolio unchanged.
EntryOnlyAboveThreshold ==
    [][/\ Opened =>
            /\ NewestTrade.side \in {"LONG", "SHORT"}
            /\ NewestTrade.aiConfidence > 75
       /\ \/ UNCHANGED <<activeTrades, portfolio>>
          \/ \A cy \in InFlight, r \in Results :
                (r.decision = "WAIT" \/ r.confidence <= 75) => ~EvaluateEntry(cy, r)]_vars

\* C9 witness: the scheduler has opened a position on a decision it accepted.
AcceptedEntryReached ==
    \E i \in 1..Len(activeTrades) :
        activeTrades[i].aiConfidence = 76 /\ activeTrades[i].id = nextId - 1

ClosedWith(trade, reason) ==
    /\ Closed
    /\ Head(tradeHistory').id = trade.id
    /\ Head(tradeHistory').reason = reason

\* pnlRatio <= -stopLossPct, for a position of positive notional
AtStopLoss(trade, cfg) ==
    /\ trade.size * trade.leverage > 0
    /\ trade.pnl * 100 <= -(cfg.stopLossPct * trade.size * trade.leverage)

\* C10 as stated: when a cycle goes on after its status save, every position of
\* its active-trades snapshot that is at or below the stop loss is closed with
\* "Stop Loss", whichever asset the cycle samples.
StopLossOnNextCycle ==
    [][\A cy \in InFlight, a \in Assets :
          (ManageExisting(cy, a) \/ StartAnalysis(cy, a)) =>
              \A i \in 1..Len(cy.trades) :
                  AtStopLoss(cy.trades[i], cy.cfg) =>
                      ClosedWith(cy.trades[i], "Stop Loss")]_vars

\* C10 amended: when a cycle goes on after its status save and samples an asset
\* with a position in its active-trades snapshot, and the first such position
\* is at or below the stop loss, that position is closed with "Stop Loss".
StopLossWhenSampled ==
    [][\A cy \in InFlight, a \in Assets :
          ManageExisting(cy, a) =>
              LET i == CHOOSE k \in 1..Len(cy.trades) :
                          /\ cy.trades[k].asset = a
                          /\ \A j \in 1..(k - 1) : cy.trades[j].asset # a
              IN AtStopLoss(cy.trades[i], cy.cfg) =>
                     ClosedWith(cy.trades[i], "Stop Loss")]_vars

\* C10 witness: the scheduler has closed a position with "Stop Loss".
StopLossCloseReached ==
    \E i \in 1..Len(tradeHistory) : tradeHistory[i].reason = "Stop Loss"

\* C14: after disconnect() and until the caller's next connect(), no
\* reconnection is attempted: no socket is constructed and no reconnect timer
\* is armed.
NoReconnectAfterDisconnect ==
    [][client = "disconnected" /\ client' = "disconnected" =>
          /\ Len(sockets') = Len(sockets)
          /\ timers' \subseteq timers]_vars

\* C15: disconnect() releases every subscriber registration: it leaves the
\* subscriber list empty.
SubscribersReleased ==
    [][client = "connected" /\ client' = "disconnected" =>
          subscribers' = <<>>]_vars

\* C16: a parsed allMids batch invokes every registered subscriber once, in
\* registration order, also when one of the callbacks throws.
EverySubscriberInvoked ==
    lastBatch.kind = "allMids" => lastBatch.invoked = lastBatch.subscribers

\* a provider failure: rate limit, network error, non-OK status, empty or
\* malformed response
ProviderFailed(req) ==
    /\ req.aiProvider \in {"GEMINI", "OPENROUTER", "OLLAMA"}
    /\ \/ req.outcome.transport = "failed"
       \/ req.outcome.status # 200
       \/ req.outcome.body.kind \in {"empty", "malformed"}

\* C11: after a provider failure analyzeMarket returns WAIT with confidence 0
\* and does not throw.
FailureDegradesToWait ==
    ProviderFailed(analysisRequest) =>
        /\ analysisResult.kind = "ok"
        /\ analysisResult.decision = "WAIT"
        /\ analysisResult.confidence = 0

\* C12: a cycle whose status save fails still goes on: when it leaves
\* await saveSystemStatus it has managed the position of its sampled asset or
\* started the analysis of that asset.
CycleSurvivesSaveFailure ==
    [][\A cy \in InFlight :
          (cy.pc = "awaitSave" /\ cycles' = Resume(cy)
             /\ \A a \in cy.cfg.assets : ~HasTrade(cy.trades, a) /\ cy.md[a] # 0)
          => \E a \in cy.cfg.assets : StartAnalysis(cy, a)]_vars

\* C13: while the scheduler is halted no new cycle starts.
NoCycleStartsWhileHalted ==
    [][~isRunning => BagCardinality(cycles') <= BagCardinality(cycles)]_vars

\* C13 witness: the scheduler is halted while a cycle is in flight, and that
\* cycle has gone on to its provider request.
HaltedWithCycleInFlight ==
    /\ ~isRunning
    /\ ~timerClosure.isRunning
    /\ \E cy \in InFlight : cy.pc = "awaitAI"

\* C17: while a building candle exists every tick of the tracked asset is
\* folded into it: close becomes the tick's price, high and low are extended by
\* it and open keeps the seed, so the finalized candle is the fold of all ticks
\* of its window.
EveryTickFolded ==
    [][\A mids \in CandleMids :
          (buildingCandleRef # NoCandle /\ Tick(mids)) =>
              buildingCandleRef' = FoldTick(buildingCandleRef, mids[selectedAsset])]_vars

\* a step of the candle loop that finalizes the building candle
Finalizes ==
    /\ ClockCheck
    /\ Len(candleHistory') = Len(candleHistory) + 1

\* C18: the clock check finalizes exactly when now >= windowStart + 900; the
\* finalized bar is the building candle as it was, the new building candle has
\* open = high = low = close = finalized.close and windowStart advanced by 900;
\* otherwise the check changes nothing, and no tick changes a bar of the history.
ClockCheckFinalizes ==
    [][/\ ClockCheck =>
            IF buildingCandleRef # NoCandle
               /\ now >= buildingCandleRef.time + 900
            THEN LET finalized == candleHistory'[Len(candleHistory')] IN
                 /\ candleHistory' = Append(candleHistory, buildingCandleRef)
                 /\ buildingCandleRef'.time = finalized.time + 900
                 /\ buildingCandleRef'.open = finalized.close
                 /\ buildingCandleRef'.high = finalized.close
                 /\ buildingCandleRef'.low = finalized.close
                 /\ buildingCandleRef'.close = finalized.close
            ELSE UNCHANGED <<candleHistory, buildingCandleRef>>
       /\ marketData' # marketData => candleHistory' = candleHistory]_vars

\* C18 witness: a bar finalized by the clock check is in the history, a tick
\* has moved the building candle that followed it.
FinalizedAndFolded ==
    /\ Len(candleHistory) > 1
    /\ buildingCandleRef # NoCandle
    /\ buildingCandleRef.time = candleHistory[Len(candleHistory)].time + 900
    /\ buildingCandleRef.close # candleHistory[Len(candleHistory)].close

\* C19: after a switch of the tracked asset no tick of the newly selected asset
\* is folded into the building candle of the previous asset, and that candle
\* is not finalized into the history shown for the new asset.
SwitchDiscardsBuildingCandle ==
    [][/\ (marketData' # marketData /\ buildingCandleRef' # buildingCandleRef)
            => buildingCandleRef.asset = selectedAsset
       /\ Finalizes => buildingCandleRef.asset = selectedAsset]_vars

\* Wilder's averages of the first n changes of a series (n >= period): the
\* mean of the first period values, then the previous average weighted
\* period - 1 to 1 against the next value
RECURSIVE WilderAvg(_, _, _, _)
WilderAvg(closes, period, n, gains) ==
    LET change == closes[n + 1] - closes[n]
        value == IF gains THEN (IF change > 0 THEN change ELSE 0)
                 ELSE (IF change < 0 THEN -change ELSE 0)
    IN IF n = 0 THEN Frac(0, 1)
       ELSE IF n <= period
            THEN FracAdd(WilderAvg(closes, period, n - 1, gains), Frac(value, period))
            ELSE LET prev == WilderAvg(closes, period, n - 1, gains)
                 IN Frac(prev.num * (period - 1) + value * prev.den, prev.den * period)

\* C20: calculateRSI is 50 for fewer than period + 1 closes, 100 when the final
\* smoothed average loss is 0, otherwise 100 - 100 / (1 + avgGain / avgLoss)
\* with Wilder's averages, and always lies in [0, 100].
RsiAgreesWithWilder ==
    LET n == Len(rsiCloses) - 1
        avgGain == WilderAvg(rsiCloses, rsiPeriod, n, TRUE)
        avgLoss == WilderAvg(rsiCloses, rsiPeriod, n, FALSE)
    IN /\ Len(rsiCloses) < rsiPeriod + 1 => FracEq(rsiValue, Frac(50, 1))
       /\ (Len(rsiCloses) >= rsiPeriod + 1 /\ avgLoss.num = 0)
              => FracEq(rsiValue, Frac(100, 1))
       /\ (Len(rsiCloses) >= rsiPeriod + 1 /\ avgLoss.num # 0)
              => FracEq(rsiValue,
                        Frac(100 * avgGain.num * avgLoss.den,
                             avgGain.num * avgLoss.den + avgLoss.num * avgGain.den))
       /\ FracLeq(Frac(0, 1), rsiValue)
       /\ FracLeq(rsiValue, Frac(100, 1))

\* C20 witness: a series with gains and losses, longer than period + 1, whose
\* value is strictly between 0 and 100 and is not 50.
SmoothedRsiReached ==
    /\ Len(rsiCloses) > rsiPeriod + 1
    /\ ~FracEq(rsiValue, Frac(50, 1))
    /\ ~FracLeq(rsiValue, Frac(0, 1))
    /\ ~FracLeq(Frac(100, 1), rsiValue)

\* C21: after a tick batch with a changed price p for an asset that is in the
\* basket, is the viewed asset or has an open position, the stored price of
\* the asset is p and every open position on it carries fees = notional x
\* feeRate + quantity x p x feeRate and pnl = gross(p) - fees, gross negated
\* for SHORT; the portfolio is untouched
TrackedAssets ==
    config.assets \cup {selectedAsset}
        \cup {activeTrades[i].asset : i \in 1..Len(activeTrades)}

MarkedAt(t, p) ==
    LET notional == t.size * t.leverage
        fees == notional \div FEE_RATE_DENOMINATOR
                  + (notional * p) \div (t.entryPrice * FEE_RATE_DENOMINATOR)
        gross == ((p - t.entryPrice) * notional) \div t.entryPrice
    IN /\ t.fees = fees
       /\ t.pnl = (IF t.side = "LONG" THEN gross ELSE -gross) - fees

TickMarksOpenPositions ==
    [][\A mids \in AllMids : Tick(mids) =>
        /\ portfolio' = portfolio
        /\ \A a \in TrackedAssets : mids[a] # marketData[a] =>
              \A i \in 1..Len(activeTrades') :
                  activeTrades'[i].asset = a => MarkedAt(activeTrades'[i], mids[a])]_vars

\* C22: the record a close adds to the history has as exit price the most
\* recent price received for its asset, its pnl and fees are computed at that
\* price, and the portfolio is credited with that pnl
RealizedAtLatestPrice ==
    [][Len(tradeHistory') = Len(tradeHistory) + 1 =>
        LET closed == tradeHistory'[1]
        IN /\ closed.exitPrice = marketData[closed.asset]
           /\ MarkedAt(closed, closed.exitPrice)
           /\ portfolio'.balance = portfolio.balance + closed.pnl
           /\ portfolio'.equity = portfolio.equity + closed.pnl
           /\ portfolio'.availableMargin =
                 portfolio.availableMargin + closed.size + closed.pnl]_vars

\* C23: a position is closed at most once: no two records of the history
\* share an id, no id is both active and in the history, and a record of the
\* history is never changed or removed
ClosedAtMostOnce ==
    /\ [](\A i, j \in 1..Len(tradeHistory) :
             tradeHistory[i].id = tradeHistory[j].id => i = j)
    /\ [](\A i \in 1..Len(activeTrades), j \in 1..Len(tradeHistory) :
             activeTrades[i].id # tradeHistory[j].id)
    /\ [][\A i \in 1..Len(tradeHistory) :
             \E j \in 1..Len(tradeHistory') : tradeHistory'[j] = tradeHistory[i]]_vars

\* the first position on the asset in the snapshot of a cycle
FirstOn(trades, a) ==
    trades[CHOOSE k \in 1..Len(trades) :
              /\ trades[k].asset = a
              /\ \A j \in 1..(k - 1) : trades[j].asset # a]

\* the three outcomes of a managing step, given the two threshold tests
ManagedAs(t, atStop, atTake) ==
    /\ \A c \in InFlight' : c.pc = "awaitAI" => c \in InFlight
    /\ atStop => ClosedWith(t, "Stop Loss")
    /\ (~atStop /\ atTake) => ClosedWith(t, "Take Profit")
    /\ (~atStop /\ ~atTake) => UNCHANGED <<activeTrades, tradeHistory, portfolio>>

CheckFinalizes ==
    /\ ClockCheck
    /\ Len(candleHistory') = Len(candleHistory) + 1

SeriesOfSelectedAsset ==
    loads = {} =>
        /\ \A i \in 1..Len(candleHistory) : candleHistory[i].asset = selectedAsset
        /\ buildingCandleRef.asset \in {selectedAsset, NoAsset}

\* a cycle that ends without having been allowed to open: the status save
\* failed, the sampled asset has no price, the provider threw or the entry
\* conditions were not met
EndsWithoutOpen(cy) ==
    \/ SaveStatusFails(cy)
    \/ \E a \in Assets : StartAnalysis(cy, a) /\ cy.md[a] = 0
    \/ \E r \in Results : EvaluateEntry(cy, r) /\ ~CanOpen(cy, r)

\* C27: the in-flight flag is always cleared again; every step that ends a
\* cycle clears it; once the agent is halted the cycles in flight all end; a
\* cycle that ends on an error, on missing data or on a rejected open leaves
\* trades, history and portfolio as they are; and when no cycle is in flight
\* the guard of the armed timer callback comes to let the next firing through
EveryCycleFinishes ==
    /\ isAnalyzing ~> ~isAnalyzing
    /\ ~isRunning ~> (cycles = EmptyBag \/ isRunning)
    /\ [][BagCardinality(cycles') < BagCardinality(cycles) => ~isAnalyzing']_vars
    /\ [][\A cy \in InFlight :
             EndsWithoutOpen(cy) => UNCHANGED <<activeTrades, tradeHistory, portfolio>>]_vars
    /\ (cycles = EmptyBag) ~> (~timerClosure.isAnalyzing \/ cycles # EmptyBag)

\* C27 witness: a cycle went to the decision provider and has ended with no
\* position opened; the flag is cleared and the render that re-arms the timer
\* is still due
EndedWithoutPosition ==
    /\ cycles = EmptyBag
    /\ ~isAnalyzing
    /\ timerClosure.isAnalyzing
    /\ isRunning
    /\ nextId = 1

\* C29: once the component is unmounted and init() has run to its end, no
\* socket is connecting or open and no reconnect timer is pending
TornDownStreamClosed ==
    (~app.mounted /\ app.init = "done") =>
        /\ \A s \in 1..Len(sockets) : ~Live(s)
        /\ timers = {}

====
